---------------------------- MODULE Spec2Model ----------------------------
(***************************************************************************)
(* A model of ecc.py: the grammar compilation of Parser.__init__, the      *)
(* source pipeline Parser._preprocess / _parse / _reduce / _translate and  *)
(* the target walk Generator._generate.                                    *)
(*                                                                         *)
(* Text is a sequence of elements.  An element is either one character or  *)
(* one balanced-delimiter identifier "@n" (the characters '@' and the      *)
(* decimal digits of n, written by _preprocess in front of a delimiter).   *)
(* Delimiter characters are taken from Chars, which holds neither '@', '-' *)
(* nor a digit, so that an identifier is never itself taken for a          *)
(* delimiter.                                                              *)
(***************************************************************************)
EXTENDS Integers, Sequences, FiniteSets, TLC

VARIABLES
  pc,       \* the stage the modelled call has reached
  grammar,  \* the grammar text handed to Parser.__init__ (its directives)
  sdel,     \* Parser.sdel: the deletion patterns
  ssub,     \* Parser.ssub: the (pattern, replacement) substitutions
  sbal,     \* Parser.sbal: the (prefix, suffix) balance pairs
  sfmt,     \* Parser.sfmt: symbol -> format alternatives
  sorg,     \* Parser.sorg: the formats of the origin symbols
  smap,     \* Parser.smap: symbol -> map alternatives
  source,   \* the text handed to the modelled call
  stack,    \* the frames of Parser._parse, innermost last
  struct,   \* the tree handed to Parser._reduce
  tmap,     \* Generator.tmap: opcode -> map alternatives
  tfmt,     \* Generator.tfmt: opcode -> format templates
  ir,       \* the internal representation (of Parser.parse, or the one
            \* handed to Generator._generate)
  trace,    \* what Parser._parse matched and Parser._translate selected
  out       \* what the modelled call returned (or the error it raised)

\* The fields of a Parser and of a Generator.
parser == <<sdel, ssub, sbal, sfmt, sorg, smap>>

generator == <<tmap, tfmt>>

vars ==
  <<pc, grammar, parser, source, stack, struct, generator, ir, trace, out>>

\* A value for the variables a specification does not use.
None == <<>>

\* Op applied to the value of an expression: as an assignment does, the
\* expression is evaluated once, before Op.
With(value, Op(_)) == CHOOSE result \in {Op(v) : v \in {value}} : TRUE

----------------------------------------------------------------------------
(* Text *)

\* One character of text.
Chr(c) == [ch |-> c, id |-> 0]

\* One identifier "@n" of text (rf'@{ctr}' in _id).
Id(n) == [ch |-> "@", id |-> n]

\* text[:i] + new + text[i+1:], for the 1-based position i.
Splice(text, i, new) ==
  SubSeq(text, 1, i - 1) \o new \o SubSeq(text, i + 1, Len(text))

\* All texts of at most n characters of the set cs.
RECURSIVE TextsUpTo(_, _)
TextsUpTo(cs, n) ==
  IF n = 0 THEN {<<>>}
  ELSE UNION {{t} \cup {Append(t, Chr(c)) : c \in cs} :
                t \in TextsUpTo(cs, n - 1)}

----------------------------------------------------------------------------
(* Parser._preprocess *)

\* The characters of the source texts.
Chars == {"(", ")", "[", "]", "a"}

\* The longest source text handed to _preprocess.
MaxPre == 4

\* re.sub(_del, '', source) for a pattern that matches the character _del.
Delete(text, _del) == SelectSeq(text, LAMBDA e : e.ch # _del)

\* re.sub(tgt, src, source) for a pattern that matches the character tgt
\* and the one-character replacement src.
Substitute(text, tgt, src) ==
  [i \in 1..Len(text) |-> IF text[i].ch = tgt THEN Chr(src) ELSE text[i]]

\* for _del in self.sdel: ...
RECURSIVE Deletions(_, _, _)
Deletions(text, dels, j) ==
  IF j > Len(dels) THEN text
  ELSE Deletions(Delete(text, dels[j]), dels, j + 1)

\* for tgt, src in self.ssub: ...
RECURSIVE Substitutions(_, _, _)
Substitutions(text, subs, j) ==
  IF j > Len(subs) THEN text
  ELSE Substitutions(Substitute(text, subs[j][1], subs[j][2]), subs, j + 1)

\* A mutant of PrefixId: the identifier is written after the increment.
PrefixIdAfterIncrement(ctr) == ctr + 1

\* The number written in front of a prefix: _id = rf'@{ctr}{prefix}'.
PrefixId(ctr) == ctr

\* The counter after a suffix, which is also the number written in front of
\* it: ctr -= 1; _id = rf'@{ctr}{suffix}'.
SuffixCtr(ctr) == ctr - 1

\* The while loop over one balance pair, from the 1-based position idx;
\* the source grows by one element at each rewritten delimiter.
RECURSIVE BalanceScan(_, _, _, _, _)
BalanceScan(text, idx, ctr, prefix, suffix) ==
  IF idx > Len(text) THEN [text |-> text, ctr |-> ctr]
  ELSE IF text[idx].ch = prefix
    THEN BalanceScan(Splice(text, idx, <<Id(PrefixId(ctr)), Chr(prefix)>>),
                     idx + 2, ctr + 1, prefix, suffix)
  ELSE IF text[idx].ch = suffix
    THEN BalanceScan(Splice(text, idx, <<Id(SuffixCtr(ctr)), Chr(suffix)>>),
                     idx + 2, SuffixCtr(ctr), prefix, suffix)
  ELSE BalanceScan(text, idx + 1, ctr, prefix, suffix)

\* for prefix, suffix in self.sbal: ... with the one counter ctr, set to 0
\* before the loop over the pairs.
RECURSIVE BalancePairs(_, _, _, _)
BalancePairs(text, ctr, bal, j) ==
  IF j > Len(bal) THEN [text |-> text, ctr |-> ctr]
  ELSE LET r == BalanceScan(text, 1, ctr, bal[j][1], bal[j][2])
       IN  BalancePairs(r.text, r.ctr, bal, j + 1)

\* Parser._preprocess: the text it returns, or the SyntaxError it raises
\* when the counter is not 0 after the last pair.
_preprocess(text, dels, subs, bal) ==
  LET cut == Substitutions(Deletions(text, dels, 1), subs, 1)
      r   == BalancePairs(cut, 0, bal, 1)
  IN  IF r.ctr # 0
        THEN [raised |-> TRUE, text |-> <<>>, ctr |-> r.ctr, cut |-> cut]
        ELSE [raised |-> FALSE, text |-> r.text, ctr |-> r.ctr, cut |-> cut]

\* The grammars' balance declarations, deletions and substitutions.
BalChoices ==
  { <<>>, << <<"(", ")">> >>, << <<"(", ")">>, <<"[", "]">> >> }

DelChoices == { <<>>, <<"a">> }

SubChoices == { <<>>, << <<"a", "(">> >> }

InitPre ==
  /\ pc = "preprocess"
  /\ source \in TextsUpTo(Chars, MaxPre)
  /\ sdel \in DelChoices
  /\ ssub \in SubChoices
  /\ sbal \in BalChoices
  /\ grammar = None /\ sfmt = None /\ sorg = None /\ smap = None /\ stack = None
  /\ struct = None /\ tmap = None /\ tfmt = None /\ ir = None
  /\ trace = None /\ out = None

\* One call of Parser._preprocess.
Preprocess ==
  /\ pc = "preprocess"
  /\ out' = _preprocess(source, sdel, ssub, sbal)
  /\ pc' = IF out'.raised THEN "raised" ELSE "returned"
  /\ UNCHANGED <<grammar, parser, source, stack, struct, generator, ir, trace>>

NextPre == Preprocess

SpecPre == InitPre /\ [][NextPre]_vars

\* The delimiter occurrences of one balance pair in a rewritten text, in
\* order: each the character and the number in front of it.
DelimsOf(text, pair) ==
  LET at == SelectSeq([i \in 1..Len(text) |-> i],
                      LAMBDA i : /\ i > 1
                                 /\ text[i].ch \in {pair[1], pair[2]}
                                 /\ text[i - 1].ch = "@")
  IN  [k \in 1..Len(at) |-> [c |-> text[at[k]].ch, n |-> text[at[k] - 1].id]]

\* The prefixes minus the suffixes among ds[i..j].
RECURSIVE Depth(_, _, _, _)
Depth(ds, pair, i, j) ==
  IF i > j THEN 0
  ELSE (IF ds[j].c = pair[1] THEN 1 ELSE -1) + Depth(ds, pair, i, j - 1)

\* ds[i] is a prefix and ds[j] the suffix that closes it.
Matched(ds, pair, i, j) ==
  /\ i < j
  /\ ds[i].c = pair[1]
  /\ ds[j].c = pair[2]
  /\ Depth(ds, pair, i, j) = 0
  /\ \A k \in i..(j - 1) : Depth(ds, pair, i, k) > 0

\* How often the character c stands in the text.
Count(text, c) == Len(SelectSeq(text, LAMBDA e : e.ch = c))

\* C3 as claimed: in the returned text two delimiters of a pair carry the
\* same number if and only if they are a matched prefix and suffix.
C3_SameIdIffMatched ==
  pc = "returned" =>
    \A p \in 1..Len(sbal) :
      LET ds == DelimsOf(out.text, sbal[p])
      IN  \A i, j \in 1..Len(ds) :
            i < j => ((ds[i].n = ds[j].n) <=> Matched(ds, sbal[p], i, j))

\* C3 as amended: in the returned text a matched prefix and suffix carry
\* the same number (the number is the nesting depth, so delimiters that
\* are not matched may carry it too).
C3_MatchedShareId ==
  pc = "returned" =>
    \A p \in 1..Len(sbal) :
      LET ds == DelimsOf(out.text, sbal[p])
      IN  \A i, j \in 1..Len(ds) :
            Matched(ds, sbal[p], i, j) => ds[i].n = ds[j].n

\* A returned text with a pair nested in a matched pair.
C3_Witness ==
  /\ pc = "returned"
  /\ \E p \in 1..Len(sbal) :
       LET ds == DelimsOf(out.text, sbal[p])
       IN  \E i, j, k, l \in 1..Len(ds) :
             /\ i < k /\ l < j
             /\ Matched(ds, sbal[p], i, j)
             /\ Matched(ds, sbal[p], k, l)

\* C4 as claimed: a text is returned only if every declared pair has as
\* many prefixes as suffixes in it.
C4_UnequalCountsRejected ==
  pc = "returned" =>
    \A p \in 1..Len(sbal) :
      Count(out.cut, sbal[p][1]) = Count(out.cut, sbal[p][2])

----------------------------------------------------------------------------
(* Parser.__init__ *)

(* A format alternative is a sequence of tokens: an escaped character      *)
(* (k = "esc": a backslash and the character c, the form in which a        *)
(* balance delimiter stands in a format), an ordinary character            *)
(* (k = "chr"), and, after compilation, a delimiter group                  *)
(* (k = "def": (?P<d{id}>@[0-9]+)\c) or a delimiter back-reference         *)
(* (k = "ref": (?P=d{id})\c).                                              *)
Tok(k, c, id) == [k |-> k, c |-> c, id |-> id, g |-> ""]

Esc(c) == Tok("esc", c, 0)

\* The longest format alternative of the grammars handed to __init__.
MaxFmt == 6

\* The escaped characters of those alternatives.
FmtChars == {"(", ")", "[", "]"}

\* All alternatives of at most n escaped characters.
RECURSIVE FmtsUpTo(_)
FmtsUpTo(n) ==
  IF n = 0 THEN {<<>>}
  ELSE UNION {{f} \cup {Append(f, Esc(c)) : c \in FmtChars} :
                f \in FmtsUpTo(n - 1)}

\* The while loop of __init__ over one balance pair: the single forward
\* pass that puts a group at each escaped prefix and a back-reference at
\* each escaped suffix.  index is 1-based; a group is one token.
RECURSIVE FormatScan(_, _, _, _, _, _, _)
FormatScan(fmt, index, ctr, lim, _ord, prefix, suffix) ==
  IF index > Len(fmt)
    THEN [fmt |-> fmt, ctr |-> ctr, lim |-> lim, _ord |-> _ord]
  ELSE IF fmt[index].k = "esc" /\ fmt[index].c = prefix
    THEN FormatScan(Splice(fmt, index, <<Tok("def", prefix, lim)>>),
                    index + 1, lim + 1, lim + 1, _ord + 1, prefix, suffix)
  ELSE IF fmt[index].k = "esc" /\ fmt[index].c = suffix
    THEN FormatScan(Splice(fmt, index, <<Tok("ref", suffix, ctr - 1)>>),
                    index + 1, ctr - 1, lim, _ord - 1, prefix, suffix)
  ELSE FormatScan(fmt, index + 1, ctr, lim, _ord, prefix, suffix)

\* for prefix, suffix in self.sbal: ... for one alternative, with
\* ctr = lim = _ord = 0 set before the loop over the pairs, and the
\* SyntaxError raised when _ord is not 0 after a pair.
RECURSIVE FormatPairs(_, _, _, _, _, _)
FormatPairs(fmt, ctr, lim, _ord, bal, j) ==
  IF j > Len(bal) THEN [raised |-> FALSE, fmt |-> fmt]
  ELSE LET r == FormatScan(fmt, 1, ctr, lim, _ord, bal[j][1], bal[j][2])
       IN  IF r._ord # 0 THEN [raised |-> TRUE, fmt |-> r.fmt]
           ELSE FormatPairs(r.fmt, r.ctr, r.lim, r._ord, bal, j + 1)

\* An OrderedDict is a sequence of entries [k, v] with distinct keys.
Keys(dict) == {dict[i].k : i \in 1..Len(dict)}

Get(dict, key) == dict[CHOOSE i \in 1..Len(dict) : dict[i].k = key].v

\* dict[key] = value: a new key goes last, a known key keeps its place.
Put(dict, key, value) ==
  IF key \in Keys(dict)
    THEN [i \in 1..Len(dict) |->
            IF dict[i].k = key THEN [k |-> key, v |-> value] ELSE dict[i]]
    ELSE Append(dict, [k |-> key, v |-> value])

\* OrderedDict(items) of a list of directives [sym, exprs].
RECURSIVE DictOf(_, _)
DictOf(items, n) ==
  IF n = 0 THEN <<>>
  ELSE Put(DictOf(items, n - 1), items[n].sym, items[n].exprs)

\* The alternatives of one symbol, each compiled by FormatPairs.
CompiledAlts(exprs, bal) ==
  [var \in 1..Len(exprs) |-> FormatPairs(exprs[var], 0, 0, 0, bal, 1)]

Range(seq) == {seq[i] : i \in 1..Len(seq)}

\* Parser.__init__: the fields of the constructed parser, or raised when
\* the compilation of a format alternative raises.
ParserInit(g) ==
  LET fmts == DictOf(g.fmt, Len(g.fmt))
      done == [i \in 1..Len(fmts) |-> CompiledAlts(fmts[i].v, g.bal)]
      bad  == \E i \in 1..Len(done) :
                \E var \in 1..Len(done[i]) : done[i][var].raised
      compiled == [i \in 1..Len(fmts) |->
                     [k |-> fmts[i].k,
                      v |-> [var \in 1..Len(done[i]) |-> done[i][var].fmt]]]
  IN  [ raised |-> bad,
        sbal   |-> g.bal,
        sfmt   |-> compiled,
        sorg   |-> SelectSeq(compiled, LAMBDA e : e.k \in Range(g.org)),
        smap   |-> DictOf(g.map, Len(g.map)) ]

\* One instruction of a map alternative (the groups of INS); in the maps
\* of a Parser a group is None (<<>>) or <<prefix, word>>, the prefix one of
\* "", "&", "#", "*".
Ins(opc, tgt, src) == [opc |-> opc, tgt |-> tgt, src |-> src]

\* The grammars handed to __init__: one .fmt directive for S, of one
\* alternative of at most n escaped characters or of that and a second
\* alternative of at most one, and one .map directive for S, of one or of
\* two alternatives.
InitGrammars(n) ==
  LET ins == << Ins(<<"", "put">>, <<>>, <<>>) >>
  IN  { [ bal |-> b,
          org |-> <<>>,
          fmt |-> << [sym |-> "S", exprs |-> e] >>,
          map |-> << [sym |-> "S", exprs |-> m] >> ] :
        b \in BalChoices \ {<<>>},
        e \in UNION {{<<f>>} \cup {<<f, h>> : h \in FmtsUpTo(1)} :
                      f \in FmtsUpTo(n)},
        m \in { <<ins>>, <<ins, ins>> } }

InitInit ==
  /\ pc = "init"
  /\ grammar \in InitGrammars(MaxFmt)
  /\ sdel = None /\ ssub = None /\ sbal = None /\ sfmt = None /\ sorg = None /\ smap = None
  /\ source = None /\ stack = None /\ struct = None
  /\ tmap = None /\ tfmt = None /\ ir = None /\ trace = None /\ out = None

\* One call of Parser.__init__.
Construct ==
  /\ pc = "init"
  /\ LET p == ParserInit(grammar)
     IN  /\ pc' = IF p.raised THEN "raised" ELSE "constructed"
         /\ sbal' = p.sbal
         /\ sfmt' = IF p.raised THEN None ELSE p.sfmt
         /\ sorg' = IF p.raised THEN None ELSE p.sorg
         /\ smap' = IF p.raised THEN None ELSE p.smap
  /\ UNCHANGED <<grammar, sdel, ssub, source, stack, struct, generator, ir,
                 trace, out>>

NextInit == Construct

SpecInit == InitInit /\ [][NextInit]_vars

\* The delimiter groups and back-references of one balance pair in a
\* compiled alternative, in order: each the character and the identifier.
GroupsOf(fmt, pair) ==
  LET at == SelectSeq([i \in 1..Len(fmt) |-> i],
                      LAMBDA i : /\ fmt[i].k \in {"def", "ref"}
                                 /\ fmt[i].c \in {pair[1], pair[2]})
  IN  [k \in 1..Len(at) |-> [c |-> fmt[at[k]].c, n |-> fmt[at[k]].id]]

\* C1 as claimed: in every compiled alternative the groups carry distinct
\* identifiers, and a back-reference carries the identifier of the group of
\* the prefix that its suffix closes.
C1_SuffixRefersToItsPrefix ==
  pc = "constructed" =>
    \A s \in 1..Len(sfmt) : \A var \in 1..Len(sfmt[s].v) :
      LET fmt == sfmt[s].v[var]
      IN  /\ \A i, j \in 1..Len(fmt) :
               (i # j /\ fmt[i].k = "def" /\ fmt[j].k = "def")
                 => fmt[i].id # fmt[j].id
          /\ \A p \in 1..Len(sbal) :
               LET ds == GroupsOf(fmt, sbal[p])
               IN  \A i, j \in 1..Len(ds) :
                     Matched(ds, sbal[p], i, j) => ds[j].n = ds[i].n

\* C2 as claimed: a constructed parser has, for every symbol of its maps,
\* as many map alternatives as format alternatives.
C2_MapsParallelToFormats ==
  pc = "constructed" =>
    \A m \in 1..Len(smap) :
      /\ smap[m].k \in Keys(sfmt)
      /\ Len(smap[m].v) = Len(Get(sfmt, smap[m].k))

----------------------------------------------------------------------------
(* Parser._reduce *)

(* A tree is a string, a list or a dictionary.  All three are records of   *)
(* the same shape: t is the type, s the text of a string, kids the items   *)
(* of a list (each under the key "") or the entries of a dictionary, in    *)
(* insertion order.                                                        *)
Str(text) == [t |-> "str", s |-> text, kids |-> <<>>]

List(items) ==
  [t |-> "list", s |-> <<>>,
   kids |-> [i \in 1..Len(items) |-> [k |-> "", v |-> items[i]]]]

Dict(entries) == [t |-> "dict", s |-> <<>>, kids |-> entries]

\* A mutant of CollapseList: a list of one element stays a list.
CollapseListNever(_struct) == List(_struct)

\* if len(_struct) == 1: return _struct[0]; else: return _struct
CollapseList(_struct) ==
  IF Len(_struct) = 1 THEN _struct[1] ELSE List(_struct)

\* The value stored under key: _value[key] if _value is a dictionary of the
\* one key key, else _value.
FlattenValue(key, _value) ==
  IF _value.t = "dict" /\ Len(_value.kids) = 1 /\ key \in Keys(_value.kids)
    THEN Get(_value.kids, key)
    ELSE _value

\* Parser._reduce.
RECURSIVE _reduce(_)
_reduce(struct_) ==
  IF struct_.t = "list"
    THEN With([i \in 1..Len(struct_.kids) |-> _reduce(struct_.kids[i].v)],
              CollapseList)
  ELSE IF struct_.t = "dict"
    THEN Dict([i \in 1..Len(struct_.kids) |->
                 [k |-> struct_.kids[i].k,
                  v |-> With(_reduce(struct_.kids[i].v),
                             LAMBDA _value :
                               FlattenValue(struct_.kids[i].k, _value))]])
  ELSE struct_

\* The deepest tree handed to _reduce.
MaxDepth == 4

\* The keys of the dictionaries and the strings of those trees.
TreeKeys == {"k", "j"}

Leaf == Str(<<Chr("a")>>)

\* The tree c and the lists and dictionaries that hold it, alone or beside
\* a string.
Grow(c) ==
  {c, List(<<c>>), List(<<c, Leaf>>), List(<<Leaf, c>>)}
  \cup {Dict(<<[k |-> key, v |-> c]>>) : key \in TreeKeys}
  \cup {Dict(<<[k |-> kk[1], v |-> c], [k |-> kk[2], v |-> Leaf]>>) :
          kk \in {p \in TreeKeys \X TreeKeys : p[1] # p[2]}}

\* The trees of depth at most d.
RECURSIVE Trees(_)
Trees(d) ==
  IF d = 0 THEN {Leaf}
  ELSE {List(<<>>), Dict(<<>>)} \cup UNION {Grow(c) : c \in Trees(d - 1)}

InitReduce ==
  /\ pc = "reduce"
  /\ struct \in Trees(MaxDepth)
  /\ grammar = None
  /\ sdel = None /\ ssub = None /\ sbal = None /\ sfmt = None /\ sorg = None /\ smap = None
  /\ source = None /\ stack = None
  /\ tmap = None /\ tfmt = None /\ ir = None /\ trace = None /\ out = None

\* One call of Parser._reduce.
Reduce ==
  /\ pc = "reduce"
  /\ out' = _reduce(struct)
  /\ pc' = "reduced"
  /\ UNCHANGED <<grammar, parser, source, stack, struct, generator, ir, trace>>

NextReduce == Reduce

SpecReduce == InitReduce /\ [][NextReduce]_vars

\* The tree and the trees below it.
RECURSIVE Subtrees(_)
Subtrees(x) ==
  {x} \cup UNION {Subtrees(x.kids[i].v) : i \in 1..Len(x.kids)}

\* C7: _reduce(_reduce(x)) = _reduce(x), and the result of _reduce holds no
\* list of one element and no key whose value is a dictionary of that one
\* key.
C7_ReduceIdempotent ==
  pc = "reduced" =>
    /\ _reduce(out) = out
    /\ \A x \in Subtrees(out) :
         /\ ~(x.t = "list" /\ Len(x.kids) = 1)
         /\ x.t = "dict" =>
              \A i \in 1..Len(x.kids) :
                ~(/\ x.kids[i].v.t = "dict"
                  /\ Len(x.kids[i].v.kids) = 1
                  /\ x.kids[i].v.kids[1].k = x.kids[i].k)

\* _reduce has collapsed a list of one element and flattened a repeated
\* key: {k: [{k: [a]}]} became {k: a}.
C7_Witness ==
  /\ pc = "reduced"
  /\ struct = Dict(<<[k |-> "k",
                      v |-> List(<<Dict(<<[k |-> "k",
                                           v |-> List(<<Leaf>>)]>>)>>)]>>)
  /\ out = Dict(<<[k |-> "k", v |-> Leaf]>>)


----------------------------------------------------------------------------
(* Generator._generate *)

(* An IR item is an instruction {opc: {tgt?, src?}} (t = "ins") or a list  *)
(* of items (t = "list").  An operand is absent (k = "none"), an atom      *)
(* (k = "atom": the first character tag, '*' or '#', and the name after    *)
(* it) or a nested instruction (k = "ir": the one instruction in ir).      *)
NoOpr == [k |-> "none", tag |-> "", name |-> "", ir |-> <<>>]

Atom(tag, name) == [k |-> "atom", tag |-> tag, name |-> name, ir |-> <<>>]

Nested(_ir) == [k |-> "ir", tag |-> "", name |-> "", ir |-> <<_ir>>]

IrIns(opc, tgt, src) ==
  [t |-> "ins", opc |-> opc, tgt |-> tgt, src |-> src, items |-> <<>>]

IrList(items) ==
  [t |-> "list", opc |-> "", tgt |-> NoOpr, src |-> NoOpr, items |-> items]

(* A template is a sequence of tokens: a placeholder &opr (k = "amp"),     *)
(* !opr (k = "bang") or $opr (k = "dol"), or literal text (k = "lit").     *)
Amp(opr) == [k |-> "amp", v |-> opr]

Bang(opr) == [k |-> "bang", v |-> opr]

Dol(opr) == [k |-> "dol", v |-> opr]

Lit(text) == [k |-> "lit", v |-> text]

\* re.search(pattern, fmt) for the placeholder token.
Search(token, fmt) == \E i \in 1..Len(fmt) : fmt[i] = token

\* re.sub(pattern, repl, fmt) for the placeholder token and the tokens repl.
RECURSIVE Sub(_, _, _)
Sub(token, repl, fmt) ==
  IF fmt = <<>> THEN <<>>
  ELSE (IF Head(fmt) = token THEN repl ELSE <<Head(fmt)>>)
       \o Sub(token, repl, Tail(fmt))

\* fmt.encode('utf-8').decode('unicode_escape'): a backslash escape of the
\* template becomes the character it names.
Decode(fmt) ==
  [i \in 1..Len(fmt) |->
     IF fmt[i] = Lit("\\n") THEN Lit("\n")
     ELSE IF fmt[i] = Lit("\\t") THEN Lit("\t")
     ELSE fmt[i]]

\* The operand of the signature ins: None, f"&{opr}" or f"{args[opr][0]}{opr}".
Signature(operand, opr) ==
  IF operand.k = "none" THEN <<>>
  ELSE IF operand.k = "ir" THEN <<"&", opr>>
  ELSE <<operand.tag, opr>>

\* The first variant of tmap[opc] whose instruction equals the signature,
\* or 0 (the for loop ends without break).
Variant(exprs, ins) ==
  IF \E var \in 1..Len(exprs) : exprs[var] = ins
    THEN CHOOSE var \in 1..Len(exprs) :
           /\ exprs[var] = ins
           /\ \A earlier \in 1..(var - 1) : exprs[earlier] # ins
    ELSE 0

\* The address after ofs: rf"{(ofs := ofs + 2)}".
NextOfs(ofs) == ofs + 2

\* A mutant of IsFirstDeclaration: every declaration takes a new address.
IsFirstDeclarationAlways(name, syms) == TRUE

\* if args[opr][1:] not in syms
IsFirstDeclaration(name, syms) == name \notin Keys(syms)

\* A mutant of IsUndeclared: a symbol that is not bound is not reported.
IsUndeclaredNever(name, syms) == FALSE

\* if args[opr][1:] not in syms: raise UnboundLocalError
IsUndeclared(name, syms) == name \notin Keys(syms)

(* The state of one frame of _generate: err is the exception that left it  *)
(* ("" for none), code, syms and ofs its locals.  log and calls are not    *)
(* locals of the code: log records, for the frame and the frames it        *)
(* called, what was declared and used (ev, the name, the address, the      *)
(* frame, ofs before and after), and calls counts the frames it called.    *)
Frame0(_syms, ofs) ==
  [err |-> "", code |-> <<>>, syms |-> _syms, ofs |-> ofs, fmt |-> <<>>,
   log |-> <<>>, calls |-> 0]

Event(ev, name, addr, frame, before, after) ==
  [ev |-> ev, name |-> name, addr |-> addr, frame |-> frame,
   before |-> before, after |-> after]

Raise(st, err) == [st EXCEPT !.err = err, !.code = <<>>]

\* The operand is a symbol: args[opr][0] == '*'.
GenSymbol(st, opr, name, frame) ==
  LET declares == Search(Bang(opr), st.fmt)
      first    == declares /\ IsFirstDeclaration(name, st.syms)
      ofs1     == IF first THEN NextOfs(st.ofs) ELSE st.ofs
      syms1    == IF first THEN Put(st.syms, name, ToString(ofs1)) ELSE st.syms
      fmt1     == IF declares THEN Sub(Bang(opr), <<Amp(opr)>>, st.fmt)
                  ELSE st.fmt
      log1     == IF declares
                    THEN Append(st.log,
                           Event(IF first THEN "declare" ELSE "redeclare",
                                 name, Get(syms1, name), frame, st.ofs, ofs1))
                    ELSE st.log
      st1      == [st EXCEPT !.ofs = ofs1, !.syms = syms1, !.fmt = fmt1,
                             !.log = log1]
  IN  IF Search(Amp(opr), fmt1)
        THEN IF IsUndeclared(name, syms1)
               THEN Raise([st1 EXCEPT !.log = Append(@,
                             Event("undeclared", name, "", frame, ofs1, ofs1))],
                          "UnboundLocalError")
               ELSE [st1 EXCEPT
                       !.fmt = Sub(Dol(opr), <<Lit(name)>>,
                                   Sub(Amp(opr), <<Lit(Get(syms1, name))>>,
                                       fmt1)),
                       !.log = Append(@,
                                 Event(IF declares THEN "resolve" ELSE "use",
                                       name, Get(syms1, name), frame,
                                       ofs1, ofs1))]
        ELSE [st1 EXCEPT !.fmt = Sub(Dol(opr), <<Lit(name)>>, fmt1)]

RECURSIVE _generate(_, _, _, _, _, _)

\* The operand is a nested ir: isinstance(args[opr], dict).
GenNested(st, opr, _ir, frame, map, fmts) ==
  LET r    == _generate(_ir, st.syms, st.ofs, Append(frame, st.calls + 1),
                        map, fmts)
      fmt1 == Sub(Amp(opr), r.code, st.fmt)
      slot == Search(Bang(opr), fmt1)
      ofs1 == IF slot THEN NextOfs(st.ofs) ELSE st.ofs
      _id  == "uuid:" \o ToString(ofs1)
  IN  IF r.err # ""
        THEN Raise([st EXCEPT !.log = @ \o r.log], r.err)
        ELSE [st EXCEPT
                !.calls = @ + 1,
                !.ofs = ofs1,
                !.syms = IF slot THEN Put(@, _id, ToString(ofs1)) ELSE @,
                !.fmt = IF slot
                          THEN Sub(Bang(opr), <<Lit(ToString(ofs1))>>, fmt1)
                          ELSE fmt1,
                !.log = IF slot
                          THEN Append(@ \o r.log,
                                 Event("declare", _id, ToString(ofs1), frame,
                                       st.ofs, ofs1))
                          ELSE @ \o r.log]

\* The body of for opr in args: for one operand.
GenOperand(st, opr, operand, frame, map, fmts) ==
  IF st.err # "" \/ operand.k = "none" THEN st
  ELSE IF operand.k = "ir"
    THEN GenNested(st, opr, operand.ir[1], frame, map, fmts)
  ELSE IF operand.tag = "#"
    THEN [st EXCEPT !.fmt = Sub(Dol(opr), <<Lit(operand.name)>>, @)]
  ELSE IF operand.tag = "*"
    THEN GenSymbol(st, opr, operand.name, frame)
  ELSE st

\* The body of for opc, args in _ir.items(): for one instruction.
GenIns(st, _ir, frame, map, fmts) ==
  LET ins == Ins(_ir.opc, Signature(_ir.tgt, "tgt"), Signature(_ir.src, "src"))
      var == IF _ir.opc \in Keys(map) THEN Variant(Get(map, _ir.opc), ins)
             ELSE 0
  IN  IF _ir.opc \notin Keys(map) THEN Raise(st, "KeyError")
      ELSE IF var = 0 THEN Raise(st, "SyntaxError")
      ELSE IF _ir.opc \notin Keys(fmts) THEN Raise(st, "KeyError")
      ELSE IF var > Len(Get(fmts, _ir.opc)) THEN Raise(st, "IndexError")
      ELSE LET st0 == [st EXCEPT !.fmt = Get(fmts, _ir.opc)[var]]
               st1 == GenOperand(st0, "tgt", _ir.tgt, frame, map, fmts)
               st2 == GenOperand(st1, "src", _ir.src, frame, map, fmts)
           IN  IF st2.err # "" THEN st2
               ELSE [st2 EXCEPT !.code = @ \o Decode(st2.fmt), !.fmt = <<>>]

\* The body of for _ir in ir: for one item.
GenItem(st, _ir, frame, map, fmts) ==
  IF _ir.t = "list"
    THEN LET r == _generate(_ir, st.syms, st.ofs, Append(frame, st.calls + 1),
                            map, fmts)
         IN  IF r.err # ""
               THEN Raise([st EXCEPT !.log = @ \o r.log], r.err)
               ELSE [st EXCEPT !.calls = @ + 1, !.code = @ \o r.code,
                               !.log = @ \o r.log]
    ELSE GenIns(st, _ir, frame, map, fmts)

RECURSIVE GenItems(_, _, _, _, _, _)
GenItems(st, items, i, frame, map, fmts) ==
  IF st.err # "" \/ i > Len(items) THEN st
  ELSE GenItems(GenItem(st, items[i], frame, map, fmts), items, i + 1,
                frame, map, fmts)

\* Generator._generate(ir, _syms, ofs) in the frame named frame, for the
\* generator fields tmap = map and tfmt = fmts.
_generate(_ir, _syms, ofs, frame, map, fmts) ==
  GenItems(Frame0(_syms, ofs),
           IF _ir.t = "list" THEN _ir.items ELSE <<_ir>>,
           1, frame, map, fmts)


\* The target grammar of the generator:
\*   .map dcl ::= dcl *tgt                  .fmt dcl ::= !tgt;
\*   .map use ::= use *tgt                  .fmt use ::= &tgt;
\*   .map mov ::= mov *tgt, *src | mov *tgt, &src
\*                                          .fmt mov ::= !tgt=&src\n | !tgt=&src\n
\*   .map psh ::= psh &tgt                  .fmt psh ::= &tgt!tgt;
TargetMap ==
  << [k |-> "dcl", v |-> << Ins("dcl", <<"*", "tgt">>, <<>>) >>],
     [k |-> "use", v |-> << Ins("use", <<"*", "tgt">>, <<>>) >>],
     [k |-> "mov", v |-> << Ins("mov", <<"*", "tgt">>, <<"*", "src">>),
                            Ins("mov", <<"*", "tgt">>, <<"&", "src">>) >>],
     [k |-> "psh", v |-> << Ins("psh", <<"&", "tgt">>, <<>>) >>] >>

TargetFmt ==
  << [k |-> "dcl", v |-> << <<Bang("tgt"), Lit(";")>> >>],
     [k |-> "use", v |-> << <<Amp("tgt"), Lit(";")>> >>],
     [k |-> "mov", v |-> << <<Bang("tgt"), Lit("="), Amp("src"), Lit("\\n")>>,
                            <<Bang("tgt"), Lit("="), Amp("src"), Lit("\\n")>> >>],
     [k |-> "psh", v |-> << <<Amp("tgt"), Bang("tgt"), Lit(";")>> >>] >>

Dcl(name) == IrIns("dcl", Atom("*", name), NoOpr)

Use(name) == IrIns("use", Atom("*", name), NoOpr)

\* The most items of the list handed to _generate.
MaxIr == 3

\* The items of that list: instructions on the symbols x and y, instructions
\* with a nested operand, and nested lists.
IrItems ==
  { Dcl("x"), Dcl("y"), Use("x"), Use("y"),
    IrIns("mov", Atom("*", "x"), Atom("*", "y")),
    IrIns("mov", Atom("*", "y"), Nested(Dcl("x"))),
    IrIns("psh", Nested(Use("x")), NoOpr),
    IrIns("psh", Nested(Dcl("x")), NoOpr),
    IrList(<<Dcl("x")>>),
    IrList(<<Use("x")>>),
    IrList(<<Dcl("x"), Use("x")>>),
    IrList(<<Dcl("y"), Dcl("x")>>),
    IrList(<<IrList(<<Dcl("x")>>)>>) }

RECURSIVE IrLists(_)
IrLists(n) ==
  IF n = 0 THEN {<<>>}
  ELSE UNION {{l} \cup {Append(l, item) : item \in IrItems} :
                l \in IrLists(n - 1)}

InitGenerate ==
  /\ pc = "generate"
  /\ tmap = TargetMap
  /\ tfmt = TargetFmt
  /\ ir \in {IrList(l) : l \in IrLists(MaxIr)} \cup IrItems
  /\ grammar = None
  /\ sdel = None /\ ssub = None /\ sbal = None /\ sfmt = None /\ sorg = None /\ smap = None
  /\ source = None /\ stack = None /\ struct = None /\ trace = None /\ out = None

\* One call self._generate(ir) of Generator.generate, with the defaults
\* _syms = {} and ofs = -2.
Generate ==
  /\ pc = "generate"
  /\ out' = _generate(ir, <<>>, -2, <<>>, tmap, tfmt)
  /\ pc' = IF out'.err # "" THEN "raised" ELSE "generated"
  /\ UNCHANGED <<grammar, parser, source, stack, struct, generator, ir, trace>>

NextGenerate == Generate

SpecGenerate == InitGenerate /\ [][NextGenerate]_vars

\* The declarations of the call that took a new address, in order.
Declared(log) == SelectSeq(log, LAMBDA e : e.ev = "declare")

\* The frame of the event d is the frame of the event u or one that called
\* it: what d declared is in the symbol table that u reads.
Visible(d, u) ==
  /\ Len(d.frame) <= Len(u.frame)
  /\ SubSeq(u.frame, 1, Len(d.frame)) = d.frame

\* The declarations of name before position i of the log that took a new
\* address and are in the symbol table of the event at i.
Bindings(log, i) ==
  {j \in 1..(i - 1) : /\ log[j].ev = "declare"
                      /\ log[j].name = log[i].name
                      /\ Visible(log[j], log[i])}

\* C5 as claimed: in one call the k-th newly declared symbol receives the
\* address 2k - 2, and no two declared symbols receive the same address.
C5_KthSymbolAtTwoKMinusTwo ==
  pc \in {"generated", "raised"} =>
    LET new == Declared(out.log)
    IN  /\ \A k \in 1..Len(new) : new[k].addr = ToString(2 * k - 2)
        /\ \A j, k \in 1..Len(new) :
             new[j].name # new[k].name => new[j].addr # new[k].addr

\* C6: a symbol operand whose template holds &opr and no !opr fails with
\* the undeclared-symbol error and no text when the name is not bound in
\* the frame's symbol table, and is otherwise replaced by the address the
\* name took at its first declaration in that table; a repeated
\* declaration changes neither that address nor the offset.
C6_UseResolvesToFirstDeclaration ==
  pc \in {"generated", "raised"} =>
    /\ \A i \in 1..Len(out.log) :
         LET e == out.log[i]
         IN  /\ e.ev = "use" =>
                  /\ Cardinality(Bindings(out.log, i)) = 1
                  /\ \A j \in Bindings(out.log, i) : out.log[j].addr = e.addr
             /\ e.ev = "undeclared" =>
                  /\ Bindings(out.log, i) = {}
                  /\ i = Len(out.log)
                  /\ out.err = "UnboundLocalError"
                  /\ out.code = <<>>
             /\ e.ev = "redeclare" =>
                  /\ Cardinality(Bindings(out.log, i)) = 1
                  /\ \A j \in Bindings(out.log, i) : out.log[j].addr = e.addr
                  /\ e.after = e.before
    /\ out.err = "UnboundLocalError" =>
         /\ out.log # <<>>
         /\ out.log[Len(out.log)].ev = "undeclared"
    /\ pc = "generated" =>
         \A i \in 1..Len(out.code) : out.code[i].k = "lit"

\* A use after a repeated declaration was replaced by the address of the
\* first declaration, and a use of a name that is not bound has failed.
C6_Witness ==
  \/ /\ pc = "generated"
     /\ \E i, j \in 1..Len(out.log) :
          /\ i < j
          /\ out.log[i].ev = "redeclare"
          /\ out.log[j].ev = "use"
          /\ out.log[j].name = out.log[i].name
          /\ out.log[j].addr = "2"
  \/ /\ pc = "raised"
     /\ out.err = "UnboundLocalError"
     /\ Len(out.log) > 1

----------------------------------------------------------------------------
(* Regular expressions of the formats *)

(* A compiled format alternative is a sequence of items, one per construct *)
(* of the regular expression.  Besides the characters, the escaped         *)
(* characters, the delimiter groups and the back-references of             *)
(* FormatPairs an item is one of the named groups (?P<g>c) "one",          *)
(* (?P<g>c?) "opt", (?P<g>.*?) "lazy", (?P<g>.+) "all", or the repetition  *)
(* c* "star".  An identifier "@n" of the text is one element.              *)
Grp(k, g, c) == [k |-> k, c |-> c, id |-> 0, g |-> g]

\* The name of the group an item defines or refers to, "" if none.
GroupName(item) ==
  IF item.k \in {"def", "ref"} THEN "d" \o ToString(item.id) ELSE item.g

\* re.compile(expr) succeeds: a back-reference names a group defined
\* before it, and no group name is defined twice.
Compiles(expr) ==
  /\ \A i \in 1..Len(expr) :
       expr[i].k = "ref" =>
         \E j \in 1..(i - 1) : expr[j].k = "def" /\ expr[j].id = expr[i].id
  /\ \A i, j \in 1..Len(expr) :
       (/\ i # j
        /\ expr[i].k # "ref" /\ GroupName(expr[i]) # ""
        /\ expr[j].k # "ref") => GroupName(expr[i]) # GroupName(expr[j])

\* The element of text at pos is the identifier "@n" of @[0-9]+ and the
\* next one is the character c.
DelimAt(text, pos, c) ==
  /\ pos + 1 <= Len(text)
  /\ text[pos].ch = "@" /\ text[pos].id >= 0
  /\ text[pos + 1].ch = c

\* The numbers of elements of text at pos the item can match, in the order
\* in which the engine tries them.
Lengths(item, text, pos, caps) ==
  LET n == Len(text) - pos + 1
      At(i) == pos + i <= Len(text) /\ text[pos + i].ch = item.c
      run == CHOOSE k \in 0..n : (\A i \in 0..(k - 1) : At(i)) /\ ~At(k)
  IN  CASE item.k \in {"chr", "esc", "one"} ->
             IF At(0) THEN <<1>> ELSE <<>>
        [] item.k = "def" ->
             IF DelimAt(text, pos, item.c) THEN <<2>> ELSE <<>>
        [] item.k = "ref" ->
             IF /\ DelimAt(text, pos, item.c)
                /\ GroupName(item) \in Keys(caps)
                /\ Get(caps, GroupName(item)) = <<text[pos]>>
               THEN <<2>> ELSE <<>>
        [] item.k = "opt" -> IF At(0) THEN <<1, 0>> ELSE <<0>>
        [] item.k = "lazy" -> [i \in 1..(n + 1) |-> i - 1]
        [] item.k = "all" -> [i \in 1..n |-> n + 1 - i]
        [] item.k = "star" -> [i \in 1..(run + 1) |-> run + 1 - i]

\* The groups after the item has matched len elements at pos.
Capture(item, text, pos, len, caps) ==
  IF item.k = "def" THEN Put(caps, GroupName(item), <<text[pos]>>)
  ELSE IF item.k \in {"one", "opt", "lazy", "all"}
    THEN Put(caps, item.g, SubSeq(text, pos, pos + len - 1))
  ELSE caps

\* The match of the items of expr from the i-th on at pos, by backtracking
\* over the lengths of each item in order: end is match.end() and caps is
\* match.groupdict().
RECURSIVE MatchFrom(_, _, _, _, _)
RECURSIVE MatchFirst(_, _, _, _, _, _, _)
MatchFrom(expr, i, text, pos, caps) ==
  IF i > Len(expr) THEN [ok |-> TRUE, end |-> pos - 1, caps |-> caps]
  ELSE With(Lengths(expr[i], text, pos, caps),
            LAMBDA lens : MatchFirst(expr, i, text, pos, caps, lens, 1))

MatchFirst(expr, i, text, pos, caps, lens, j) ==
  IF j > Len(lens) THEN [ok |-> FALSE, end |-> 0, caps |-> <<>>]
  ELSE With(With(Capture(expr[i], text, pos, lens[j], caps),
                 LAMBDA caps_ : MatchFrom(expr, i + 1, text, pos + lens[j],
                                          caps_)),
            LAMBDA m : IF m.ok THEN m
                       ELSE MatchFirst(expr, i, text, pos, caps, lens, j + 1))

\* re.match(expr, text, re.DOTALL)
Match(expr, text) == MatchFrom(expr, 1, text, 1, <<>>)

----------------------------------------------------------------------------
(* Parser._parse: the removal of the suffixes whose prefix is gone *)

\* The identifiers of the matches of rf"@(?P<id>[0-9]+)\{c}" in text from
\* position i on, in order.
RECURSIVE Delims(_, _, _)
Delims(text, c, i) ==
  IF i >= Len(text) THEN <<>>
  ELSE IF DelimAt(text, i, c)
    THEN <<text[i].id>> \o Delims(text, c, i + 2)
  ELSE Delims(text, c, i + 1)

\* re.sub(rf"@{id}\{suffix}", '', text)
RECURSIVE RemoveDelim(_, _, _)
RemoveDelim(text, id, suffix) ==
  IF text = <<>> THEN <<>>
  ELSE IF DelimAt(text, 1, suffix) /\ text[1].id = id
    THEN With(SubSeq(text, 3, Len(text)),
              LAMBDA rest : RemoveDelim(rest, id, suffix))
  ELSE With(Tail(text), LAMBDA rest : <<text[1]>> \o RemoveDelim(rest, id, suffix))

\* for delim in re.finditer(...): if not re.search(...): source = re.sub(...)
\* over the matches ids found before the loop.
RECURSIVE SweepDelims(_, _, _, _, _)
SweepDelims(text, ids, j, prefix, suffix) ==
  IF j > Len(ids) THEN text
  ELSE With(IF ids[j] \in Range(Delims(text, prefix, 1))
              THEN text
              ELSE RemoveDelim(text, ids[j], suffix),
            LAMBDA swept : SweepDelims(swept, ids, j + 1, prefix, suffix))

\* for prefix, suffix in self.sbal: ...
RECURSIVE Sweep(_, _, _)
Sweep(text, bal, j) ==
  IF j > Len(bal) THEN text
  ELSE With(With(Delims(text, bal[j][2], 1),
                 LAMBDA ids : SweepDelims(text, ids, 1, bal[j][1], bal[j][2])),
            LAMBDA swept : Sweep(swept, bal, j + 1))

----------------------------------------------------------------------------
(* Parser._parse *)

\* The depth of calls of _parse at which re.match still returns: two calls
\* deeper, in re.match and re._compile, Python raises RecursionError.
RecursionLimit == 6

\* The longest source text handed to parse.
MaxSrc == 3

\* The nodes kept of a list ast.  A call that consumes text at every
\* iteration appends fewer.
MaxAst == 2 * MaxSrc + 1

NoMatch == [ok |-> FALSE, end |-> 0, caps |-> <<>>]

(* One call of _parse: its arguments source and targets, its place        *)
(* (phase "while" at the test of the while loop, "for" at an alternative  *)
(* expr = targets[si].v[ai], "groups" at the group match.caps[gi] inside  *)
(* the try block, "raise" when an exception leaves the call), its locals  *)
(* ast, match and _ast[sym], the exception err that leaves it, and the    *)
(* record of what it did: tried holds                                      *)
(* the alternatives passed over in this iteration of the while loop and   *)
(* alts the alternative, the text and the passed over alternatives of     *)
(* each node of ast.                                                       *)
Frame(text, targets) ==
  [source |-> text, targets |-> targets, phase |-> "while",
   si |-> 1, ai |-> 1, ast |-> <<>>, match |-> NoMatch, gi |-> 1,
   _ast |-> <<>>, err |-> "", tried |-> <<>>, alts |-> <<>>]

Top(stk) == stk[Len(stk)]

SetTop(stk, f) == [stk EXCEPT ![Len(stk)] = f]

\* list.append, on a list of which MaxAst nodes are kept.
Keep(list, item) == IF Len(list) < MaxAst THEN Append(list, item) ELSE list

\* A mutant of NextAlt: the next symbol, whatever alternatives are left.
NextAltSkipsSymbol(f) ==
  IF f.si < Len(f.targets)
    THEN [f EXCEPT !.phase = "for", !.si = @ + 1, !.ai = 1]
    ELSE [f EXCEPT !.phase = "raise", !.err = "SyntaxError"]

\* continue: the next alternative of the symbol, else (else: continue) the
\* first of the next symbol, else (else: raise SyntaxError) the exception.
NextAlt(f) ==
  IF f.ai < Len(f.targets[f.si].v)
    THEN [f EXCEPT !.phase = "for", !.ai = @ + 1]
  ELSE IF f.si < Len(f.targets)
    THEN [f EXCEPT !.phase = "for", !.si = @ + 1, !.ai = 1]
  ELSE [f EXCEPT !.phase = "raise", !.err = "SyntaxError"]

\* The alternative is passed over, because it does not match ("nomatch")
\* or because the try block raised ("failed"): _ast is dropped.
Continue(f, how) ==
  NextAlt([f EXCEPT !.tried = Append(@, [si |-> f.si, ai |-> f.ai,
                                         how |-> how]),
                    !.match = NoMatch, !.gi = 1, !._ast = <<>>])

\* ast.append(_ast); break; source = source[match.end():]; break
Appended(f, attrs, end) ==
  [f EXCEPT !.ast = Keep(@, Dict(<<[k |-> f.targets[f.si].k, v |-> attrs]>>)),
            !.alts = Keep(@, [si |-> f.si, ai |-> f.ai, tried |-> f.tried,
                              source |-> f.source]),
            !.source = SubSeq(f.source, end + 1, Len(f.source)),
            !.phase = "while", !.match = NoMatch, !.gi = 1, !._ast = <<>>,
            !.tried = <<>>]

\* re.sub('@[0-9]+', '', _expr)
StripIds(text) == SelectSeq(text, LAMBDA e : ~(e.ch = "@" /\ e.id >= 0))

\* org = self.sorg.items() if self.sorg else self.sfmt.items()
Origin == IF sorg # <<>> THEN sorg ELSE sfmt

\* self._parse(_source, org) is called.
ParseStart ==
  /\ pc = "returned"
  /\ stack' = <<Frame(out.text, Origin)>>
  /\ pc' = "parse"
  /\ UNCHANGED <<grammar, parser, source, struct, generator, ir, trace, out>>

\* while source: the loop over the targets starts.
While ==
  /\ pc = "parse"
  /\ Top(stack).phase = "while"
  /\ Top(stack).source # <<>>
  /\ stack' = SetTop(stack,
       IF Top(stack).targets = <<>>
         THEN [Top(stack) EXCEPT !.phase = "raise", !.err = "SyntaxError"]
         ELSE [Top(stack) EXCEPT !.phase = "for", !.si = 1, !.ai = 1,
                                 !.tried = <<>>])
  /\ UNCHANGED <<pc, grammar, parser, source, struct, generator, ir, trace,
                 out>>

\* One alternative: the suffixes whose prefix is gone are removed, the text
\* is matched, and a match without groups is appended to ast.
TryAlt ==
  /\ pc = "parse"
  /\ Top(stack).phase = "for"
  /\ \E f \in {[Top(stack) EXCEPT !.source = Sweep(@, sbal, 1)]} :
       \E m \in {Match(f.targets[f.si].v[f.ai], f.source)} :
         stack' = SetTop(stack,
           IF ~Compiles(f.targets[f.si].v[f.ai])
             THEN [f EXCEPT !.phase = "raise", !.err = "re.error"]
           ELSE IF ~m.ok THEN Continue(f, "nomatch")
           ELSE IF m.caps = <<>>
             THEN Appended(f, Str(SubSeq(f.source, 1, m.end)), m.end)
           ELSE [f EXCEPT !.phase = "groups", !.match = m, !.gi = 1,
                          !._ast = <<>>])
  /\ UNCHANGED <<pc, grammar, parser, source, struct, generator, ir, trace,
                 out>>

\* if not re.sub('@[0-9]+', '', _expr): continue
SkipGroup ==
  /\ pc = "parse"
  /\ Top(stack).phase = "groups"
  /\ Top(stack).gi <= Len(Top(stack).match.caps)
  /\ StripIds(Top(stack).match.caps[Top(stack).gi].v) = <<>>
  /\ stack' = SetTop(stack, [Top(stack) EXCEPT !.gi = @ + 1])
  /\ UNCHANGED <<pc, grammar, parser, source, struct, generator, ir, trace,
                 out>>

\* The call self._parse(_expr, _targets) can be made: the group has a
\* format and the depth of calls is below the limit.
CanCall(stk) ==
  /\ Top(stk).match.caps[Top(stk).gi].k \in Keys(sfmt)
  /\ Len(stk) < RecursionLimit

\* _targets = {_sym: self.sfmt[_sym]}.items(); self._parse(_expr, _targets)
SubParse ==
  /\ pc = "parse"
  /\ Top(stack).phase = "groups"
  /\ Top(stack).gi <= Len(Top(stack).match.caps)
  /\ StripIds(Top(stack).match.caps[Top(stack).gi].v) # <<>>
  /\ CanCall(stack)
  /\ LET g == Top(stack).match.caps[Top(stack).gi]
     IN  stack' = Append(stack,
                         Frame(g.v, <<[k |-> g.k, v |-> Get(sfmt, g.k)]>>))
  /\ UNCHANGED <<pc, grammar, parser, source, struct, generator, ir, trace,
                 out>>

\* self.sfmt[_sym] raises KeyError or the call raises RecursionError:
\* except: continue
GroupFails ==
  /\ pc = "parse"
  /\ Top(stack).phase = "groups"
  /\ Top(stack).gi <= Len(Top(stack).match.caps)
  /\ StripIds(Top(stack).match.caps[Top(stack).gi].v) # <<>>
  /\ ~CanCall(stack)
  /\ stack' = SetTop(stack, Continue(Top(stack), "failed"))
  /\ UNCHANGED <<pc, grammar, parser, source, struct, generator, ir, trace,
                 out>>

\* After the last group: ast.append(_ast) and the text moves on.
AppendNode ==
  /\ pc = "parse"
  /\ Top(stack).phase = "groups"
  /\ Top(stack).gi > Len(Top(stack).match.caps)
  /\ stack' = SetTop(stack, Appended(Top(stack), Dict(Top(stack)._ast),
                                     Top(stack).match.end))
  /\ UNCHANGED <<pc, grammar, parser, source, struct, generator, ir, trace,
                 out>>

\* return ast of a call made for a group: _ast[sym][_sym] = the list.
SubParseReturn ==
  /\ pc = "parse"
  /\ Len(stack) > 1
  /\ Top(stack).phase = "while"
  /\ Top(stack).source = <<>>
  /\ LET caller == stack[Len(stack) - 1]
     IN  stack' = Append(SubSeq(stack, 1, Len(stack) - 2),
           [caller EXCEPT !._ast = Put(@, caller.match.caps[caller.gi].k,
                                       List(Top(stack).ast)),
                          !.gi = @ + 1])
  /\ UNCHANGED <<pc, grammar, parser, source, struct, generator, ir, trace,
                 out>>

\* An exception leaves a call made for a group: except: continue
SubParseRaise ==
  /\ pc = "parse"
  /\ Len(stack) > 1
  /\ Top(stack).phase = "raise"
  /\ stack' = Append(SubSeq(stack, 1, Len(stack) - 2),
                     Continue(stack[Len(stack) - 1], "failed"))
  /\ UNCHANGED <<pc, grammar, parser, source, struct, generator, ir, trace,
                 out>>

\* return ast of the call made by parse: Parser._reduce is called on it.
ParseReturn ==
  /\ pc = "parse"
  /\ Len(stack) = 1
  /\ Top(stack).phase = "while"
  /\ Top(stack).source = <<>>
  /\ struct' = List(Top(stack).ast)
  /\ trace' = [alts |-> Top(stack).alts, vars |-> <<>>, err |-> ""]
  /\ stack' = <<>>
  /\ pc' = "reduce"
  /\ UNCHANGED <<grammar, parser, source, generator, ir, out>>

\* The depth of calls Parser._reduce(tree) reaches: a call for a string or
\* a dictionary, a call and its list comprehension for a list.
RECURSIVE Calls(_)
Calls(tree) ==
  (IF tree.t = "list" THEN 2 ELSE 1)
  + (IF tree.kids = <<>> THEN 0
     ELSE With({Calls(tree.kids[i].v) : i \in 1..Len(tree.kids)},
               LAMBDA below : CHOOSE n \in below : \A m \in below : m <= n))

\* ast = Parser._reduce(...) in parse: the reduced tree, or the
\* RecursionError of a tree too deep for the calls that _parse had.
ReduceAst ==
  /\ pc = "reduce"
  /\ \E calls \in {Calls(struct)} :
       /\ pc' = IF calls > RecursionLimit + 2 THEN "raised" ELSE "reduced"
       /\ out' = IF calls > RecursionLimit + 2 THEN out ELSE _reduce(struct)
       /\ trace' = IF calls > RecursionLimit + 2
                     THEN [trace EXCEPT !.err = "RecursionError"]
                     ELSE trace
  /\ UNCHANGED <<grammar, parser, source, stack, struct, generator, ir>>

\* An exception leaves the call made by parse, and parse.
ParseRaise ==
  /\ pc = "parse"
  /\ Len(stack) = 1
  /\ Top(stack).phase = "raise"
  /\ trace' = [alts |-> Top(stack).alts, vars |-> <<>>,
               err |-> Top(stack).err]
  /\ stack' = <<>>
  /\ pc' = "raised"
  /\ UNCHANGED <<grammar, parser, source, struct, generator, ir, out>>

----------------------------------------------------------------------------
(* Parser._translate *)

\* The text as one string, to be the key of a dictionary.
RECURSIVE Flat(_)
Flat(text) ==
  IF text = <<>> THEN ""
  ELSE (IF text[1].ch = "@" THEN "@" \o ToString(text[1].id) ELSE text[1].ch)
       \o Flat(Tail(text))

\* A word of a map as text.
Word(w) == <<Chr(w)>>

\* re.compile(expr).groupindex.keys() without the groups d<n>.
Groups(expr) ==
  {expr[i].g : i \in {j \in 1..Len(expr) :
                        expr[j].k \in {"one", "opt", "lazy", "all"}}}

Ok(value) == [err |-> "", ir |-> value, vars |-> <<>>]

Err(name) == [err |-> name, ir |-> None, vars |-> <<>>]

\* for var, expr in enumerate(self.sfmt[sym]): ... break, else: raise;
\* var is 1-based.
RECURSIVE SelectVariant(_, _, _)
SelectVariant(exprs, attrs, var) ==
  IF var > Len(exprs) THEN [err |-> "SyntaxError", var |-> 0]
  ELSE IF ~Compiles(exprs[var]) THEN [err |-> "re.error", var |-> 0]
  ELSE IF attrs.t = "dict"
    THEN IF Keys(attrs.kids) = Groups(exprs[var])
           THEN [err |-> "", var |-> var]
           ELSE SelectVariant(exprs, attrs, var + 1)
  ELSE IF attrs.t = "list" THEN [err |-> "TypeError", var |-> 0]
  ELSE IF Match(exprs[var], attrs.s).ok THEN [err |-> "", var |-> var]
  ELSE SelectVariant(exprs, attrs, var + 1)

RECURSIVE _translate(_, _, _)

\* self._translate({name: attrs[name]})
Deref(name, attrs, fmts, maps) ==
  IF attrs.t # "dict" THEN Err("TypeError")
  ELSE IF name \notin Keys(attrs.kids) THEN Err("KeyError")
  ELSE _translate(Dict(<<[k |-> name, v |-> Get(attrs.kids, name)]>>),
                  fmts, maps)

\* The value of the group val of an instruction: None, a translated slice
\* of the ast if it is dereferenced, '#' + attrs or '*' + attrs if it is an
\* explicit or a symbol opcode, else val itself.
Value(val, isOpc, attrs, fmts, maps) ==
  IF val = None THEN Ok(None)
  ELSE IF val[1] = "&" THEN Deref(val[2], attrs, fmts, maps)
  ELSE IF isOpc /\ val[1] \in {"#", "*"}
    THEN IF attrs.t = "str" THEN Ok(Str(<<Chr(val[1])>> \o attrs.s))
         ELSE Err("TypeError")
  ELSE Ok(Str(Word(val[1] \o val[2])))

\* The item an instruction appends to ir, from the values of its opcode,
\* vals[1], and of its operands tgt, vals[2], and src, vals[3].
Item(ins, vals) ==
  IF vals[1].err # "" THEN Err(vals[1].err)
  ELSE IF ins.tgt = None /\ ins.src = None THEN Ok(vals[1].ir)
  ELSE IF vals[2].err # "" THEN Err(vals[2].err)
  ELSE IF vals[3].err # "" THEN Err(vals[3].err)
  ELSE IF vals[1].ir.t # "str" THEN Err("TypeError")
  ELSE Ok(Dict(<<[k |-> Flat(vals[1].ir.s),
                  v |-> Dict((IF ins.tgt = None THEN <<>>
                              ELSE <<[k |-> "tgt", v |-> vals[2].ir]>>)
                             \o (IF ins.src = None THEN <<>>
                                 ELSE <<[k |-> "src", v |-> vals[3].ir]>>))]>>))

Instruction(ins, attrs, fmts, maps) ==
  With(<<Value(ins.opc, TRUE, attrs, fmts, maps),
         Value(ins.tgt, FALSE, attrs, fmts, maps),
         Value(ins.src, FALSE, attrs, fmts, maps)>>,
       LAMBDA vals : Item(ins, vals))

\* ir.append(item), or the exception of the item.
Appending(done, item) ==
  IF item.err # "" THEN [done EXCEPT !.err = item.err]
  ELSE [done EXCEPT !.ir = Append(@, item.ir)]

\* for ins in self.smap[sym][var]: ...; done holds the items appended to
\* ir and the variants selected so far.
RECURSIVE Instructions(_, _, _, _, _, _)
Instructions(inss, i, attrs, fmts, maps, done) ==
  IF done.err # "" \/ i > Len(inss) THEN done
  ELSE With(With(Instruction(inss[i], attrs, fmts, maps),
                 LAMBDA item : Appending(done, item)),
            LAMBDA done_ : Instructions(inss, i + 1, attrs, fmts, maps, done_))

\* The exception of the entry sym: attrs of a node whose variant sel is
\* selected, "" if the loop over the instructions is reached.
EntryError(sym, sel, maps) ==
  IF sel.err # "" THEN sel.err
  ELSE IF sym \notin Keys(maps) THEN "KeyError"
  ELSE IF sel.var > Len(Get(maps, sym)) THEN "IndexError"
  ELSE ""

\* The variants selected, after sel.
Selected(done, sel) ==
  IF sel.err # "" THEN done ELSE [done EXCEPT !.vars = Append(@, sel.var)]

\* One entry sym: attrs of a node, for the variant sel.
Entry(sym, attrs, sel, fmts, maps, done) ==
  IF EntryError(sym, sel, maps) # ""
    THEN [Selected(done, sel) EXCEPT !.err = EntryError(sym, sel, maps)]
    ELSE Instructions(Get(maps, sym)[sel.var], 1, attrs, fmts, maps,
                      Selected(done, sel))

\* for sym, attrs in _ast.items(): ...
RECURSIVE Entries(_, _, _, _, _)
Entries(kids, j, fmts, maps, done) ==
  IF done.err # "" \/ j > Len(kids) THEN done
  ELSE With(IF kids[j].k \notin Keys(fmts)
              THEN [done EXCEPT !.err = "KeyError"]
              ELSE With(SelectVariant(Get(fmts, kids[j].k), kids[j].v, 1),
                        LAMBDA sel : Entry(kids[j].k, kids[j].v, sel,
                                           fmts, maps, done)),
            LAMBDA done_ : Entries(kids, j + 1, fmts, maps, done_))

\* for _ast in ast if isinstance(ast, list) else [ast]: ...
RECURSIVE Nodes(_, _, _, _, _)
Nodes(nodes, i, fmts, maps, done) ==
  IF done.err # "" \/ i > Len(nodes) THEN done
  ELSE With(IF nodes[i].t # "dict"
              THEN [done EXCEPT !.err = "AttributeError"]
              ELSE Entries(nodes[i].kids, 1, fmts, maps, done),
            LAMBDA done_ : Nodes(nodes, i + 1, fmts, maps, done_))

\* return ir if len(ir) > 1 else ir[0]
Returned(done) ==
  IF done.err # "" THEN [done EXCEPT !.ir = None]
  ELSE IF done.ir = <<>> THEN [done EXCEPT !.err = "IndexError", !.ir = None]
  ELSE [done EXCEPT !.ir = IF Len(@) > 1 THEN List(@) ELSE @[1]]

\* Parser._translate: the internal representation or the exception, and
\* the variant selected for each node of ast.
_translate(ast, fmts, maps) ==
  With(Nodes(IF ast.t = "list"
               THEN [i \in 1..Len(ast.kids) |-> ast.kids[i].v]
               ELSE <<ast>>,
             1, fmts, maps, Ok(<<>>)),
       Returned)

\* The outcome of self._translate(ast) followed by Parser._reduce.
Translated(done) ==
  /\ ir' = IF done.err = "" THEN _reduce(done.ir) ELSE None
  /\ trace' = [trace EXCEPT !.vars = done.vars, !.err = done.err]
  /\ pc' = IF done.err = "" THEN "translated" ELSE "raised"

\* ir = Parser._reduce(self._translate(ast)) and the return of parse.
Translate ==
  /\ pc = "reduced"
  /\ \E done \in {_translate(out, sfmt, smap)} : Translated(done)
  /\ UNCHANGED <<grammar, parser, source, stack, struct, generator, out>>

----------------------------------------------------------------------------
(* Parser.parse *)

Char(c) == Tok("chr", c, 0)

Fmt(sym, exprs) == [sym |-> sym, exprs |-> exprs]

\* An instruction of only an opcode, and one with the operand tgt.
Op(prefix, word) == Ins(<<prefix, word>>, None, None)

OpTgt(word, prefix, tgt) == Ins(<<"", word>>, <<prefix, tgt>>, None)

(* .org S                                                                  *)
(* .fmt S ::= (?P<u>a) | (?P<x>a)b | a | b     .fmt x ::= a                *)
(* .map S ::= one | two &x | three | four      .map x ::= #x               *)
GrammarOrder ==
  [ bal |-> <<>>,
    org |-> <<"S">>,
    fmt |-> << Fmt("S", << <<Grp("one", "u", "a")>>,
                           <<Grp("one", "x", "a"), Char("b")>>,
                           <<Char("a")>>,
                           <<Char("b")>> >>),
               Fmt("x", << <<Char("a")>> >>) >>,
    map |-> << Fmt("S", << <<Op("", "one")>>,
                           <<OpTgt("two", "&", "x")>>,
                           <<Op("", "three")>>,
                           <<Op("", "four")>> >>),
               Fmt("x", << <<Op("#", "x")>> >>) >> ]

(* .org S                                                                  *)
(* .fmt S ::= (?P<x>a) | (?P<x>b)     .fmt x ::= a | b                     *)
(* .map S ::= one &x | two &x         .map x ::= #x | *x                   *)
GrammarSame ==
  [ bal |-> <<>>,
    org |-> <<"S">>,
    fmt |-> << Fmt("S", << <<Grp("one", "x", "a")>>,
                           <<Grp("one", "x", "b")>> >>),
               Fmt("x", << <<Char("a")>>, <<Char("b")>> >>) >>,
    map |-> << Fmt("S", << <<OpTgt("one", "&", "x")>>,
                           <<OpTgt("two", "&", "x")>> >>),
               Fmt("x", << <<Op("#", "x")>>, <<Op("*", "x")>> >>) >> ]

(* .fmt S ::= (?P<x>a?)b     .fmt x ::= a                                  *)
(* .map S ::= one &x         .map x ::= #x                                 *)
GrammarEmpty ==
  [ bal |-> <<>>,
    org |-> <<>>,
    fmt |-> << Fmt("S", << <<Grp("opt", "x", "a"), Char("b")>> >>),
               Fmt("x", << <<Char("a")>> >>) >>,
    map |-> << Fmt("S", << <<OpTgt("one", "&", "x")>> >>),
               Fmt("x", << <<Op("#", "x")>> >>) >> ]

(* .fmt S ::= a*     .map S ::= #S                                         *)
GrammarStar ==
  [ bal |-> <<>>,
    org |-> <<>>,
    fmt |-> << Fmt("S", << <<Tok("star", "a", 0)>> >>) >>,
    map |-> << Fmt("S", << <<Op("#", "S")>> >>) >> ]

(* .fmt S ::= (?P<S>.+) | a     .map S ::= one &S | #S                     *)
GrammarSelf ==
  [ bal |-> <<>>,
    org |-> <<>>,
    fmt |-> << Fmt("S", << <<Grp("all", "S", "")>>, <<Char("a")>> >>) >>,
    map |-> << Fmt("S", << <<OpTgt("one", "&", "S")>>,
                           <<Op("#", "S")>> >>) >> ]

(* .bal ()  .bal []  .org S                                                *)
(* .fmt S ::= \((?P<x>.*?)\) | a | b                                       *)
(* .fmt x ::= a | b | \((?P<x>.*?)\)                                       *)
(* .map S ::= grp &x | #S | #S     .map x ::= #x | #x | sub &x             *)
GrammarNest ==
  [ bal |-> << <<"(", ")">>, <<"[", "]">> >>,
    org |-> <<"S">>,
    fmt |-> << Fmt("S", << <<Tok("esc", "(", 0), Grp("lazy", "x", ""),
                             Tok("esc", ")", 0)>>,
                           <<Char("a")>>,
                           <<Char("b")>> >>),
               Fmt("x", << <<Char("a")>>,
                           <<Char("b")>>,
                           <<Tok("esc", "(", 0), Grp("lazy", "x", ""),
                             Tok("esc", ")", 0)>> >>) >>,
    map |-> << Fmt("S", << <<OpTgt("grp", "&", "x")>>,
                           <<Op("#", "S")>>,
                           <<Op("#", "S")>> >>),
               Fmt("x", << <<Op("#", "x")>>,
                           <<Op("#", "x")>>,
                           <<OpTgt("sub", "&", "x")>> >>) >> ]

ParseGrammars ==
  { GrammarOrder, GrammarSame, GrammarEmpty, GrammarStar, GrammarSelf,
    GrammarNest }

\* The characters of the source texts handed to parse.
ParseChars == {"a", "b", "(", ")", "]"}

\* A parser constructed from one of the grammars, and a source text.
InitParse ==
  /\ pc = "preprocess"
  /\ grammar \in ParseGrammars
  /\ source \in TextsUpTo(ParseChars, MaxSrc)
  /\ sdel = <<>> /\ ssub = <<>>
  /\ sbal = ParserInit(grammar).sbal
  /\ sfmt = ParserInit(grammar).sfmt
  /\ sorg = ParserInit(grammar).sorg
  /\ smap = ParserInit(grammar).smap
  /\ stack = <<>> /\ struct = None
  /\ tmap = None /\ tfmt = None /\ ir = None /\ trace = None /\ out = None

NextParse ==
  \/ Preprocess
  \/ ParseStart
  \/ While
  \/ TryAlt
  \/ SkipGroup
  \/ SubParse
  \/ GroupFails
  \/ AppendNode
  \/ SubParseReturn
  \/ SubParseRaise
  \/ ParseReturn
  \/ ParseRaise
  \/ ReduceAst
  \/ Translate

SpecParse == InitParse /\ [][NextParse]_vars

\* The calls of parse are run to their end.
FairParse == SpecParse /\ WF_vars(NextParse)

----------------------------------------------------------------------------
(* The claims about Parser.parse *)

\* The alternative p comes before q in declaration order.
Before(p, q) == p.si < q.si \/ (p.si = q.si /\ p.ai < q.ai)

\* The alternatives of the targets.
Alternatives(targets) ==
  UNION {{[si |-> i, ai |-> j] : j \in 1..Len(targets[i].v)} :
           i \in 1..Len(targets)}

\* The alternatives passed over at the text are those of the set alts, in
\* the order of the declarations, and one is passed over as not matching
\* exactly if its expression does not match the text.
PassedOver(tried, alts, targets, text) ==
  /\ {[si |-> tried[i].si, ai |-> tried[i].ai] : i \in 1..Len(tried)} = alts
  /\ \A i, j \in 1..Len(tried) : i < j => Before(tried[i], tried[j])
  /\ \A i \in 1..Len(tried) :
       /\ tried[i].how \in {"nomatch", "failed"}
       /\ tried[i].how = "nomatch"
            <=> ~Match(targets[tried[i].si].v[tried[i].ai], text).ok

\* The node recorded by e was appended for the first alternative of the
\* targets that matches e.source and did not fail: the alternatives passed
\* over are all the earlier ones.
ChosenFirst(e, targets) ==
  /\ Match(targets[e.si].v[e.ai], e.source).ok
  /\ PassedOver(e.tried, {p \in Alternatives(targets) : Before(p, e)},
                targets, e.source)

\* In every call of _parse each node of ast is the node of one chosen
\* alternative, and so is each node of the list the call made by parse
\* returned; the call raises the SyntaxError of no match only after every
\* alternative is passed over.
ChosenInOrder ==
  /\ pc = "parse" =>
       \A d \in 1..Len(stack) :
         /\ Len(stack[d].ast) = Len(stack[d].alts)
         /\ \A i \in 1..Len(stack[d].alts) :
              /\ ChosenFirst(stack[d].alts[i], stack[d].targets)
              /\ Keys(stack[d].ast[i].kids)
                   = {stack[d].targets[stack[d].alts[i].si].k}
         /\ (stack[d].phase = "raise" /\ stack[d].err = "SyntaxError") =>
              PassedOver(stack[d].tried, Alternatives(stack[d].targets),
                         stack[d].targets, stack[d].source)
  /\ (pc \in {"reduce", "reduced", "translated", "raised"} /\ trace # None) =>
       \A i \in 1..Len(trace.alts) : ChosenFirst(trace.alts[i], Origin)

\* A step that passes over an alternative, in the call that is on top of
\* the stack after the step, leaves the list ast of that call as it is and
\* its text as it is but for the suffixes whose prefix is gone.
PassedOverKeeps ==
  (/\ pc = "parse" /\ pc' = "parse"
   /\ Len(stack') <= Len(stack)
   /\ Len(Top(stack').tried) > Len(stack[Len(stack')].tried)) =>
    /\ Top(stack').ast = stack[Len(stack')].ast
    /\ Top(stack').alts = stack[Len(stack')].alts
    /\ Top(stack').source = Sweep(stack[Len(stack')].source, sbal, 1)
    /\ Top(stack')._ast = <<>>

\* C8: at every position of the text _parse appends the node of the first
\* alternative, in the order of the declarations, whose expression matches
\* at the start of the text and whose groups are parsed without an
\* exception; an alternative that matches and fails is passed over without
\* a node appended and without the text moving on.
C8_FirstAlternativeInOrder == [](ChosenInOrder) /\ [][PassedOverKeeps]_vars

\* A node was appended for the third alternative after the first, whose
\* group has no format, matched and failed and the second did not match.
C8_Witness ==
  /\ pc = "reduce"
  /\ \E i \in 1..Len(trace.alts) :
       /\ trace.alts[i].ai = 3
       /\ \E j, k \in 1..Len(trace.alts[i].tried) :
            /\ trace.alts[i].tried[j].how = "failed"
            /\ trace.alts[i].tried[k].how = "nomatch"

\* C9 as claimed: for each node of the list that _parse returned,
\* _translate selects the alternative that _parse matched for the node.
C9_VariantIsMatchedAlternative ==
  pc = "translated" =>
    /\ Len(trace.vars) = Len(trace.alts)
    /\ \A i \in 1..Len(trace.alts) : trace.vars[i] = trace.alts[i].ai

\* C10 as claimed: every call of _parse by parse ends, by its return or by
\* an exception.
C10_ParseTerminates == <>(pc \notin {"preprocess", "returned", "parse"})


=============================================================================
